---- MODULE Spec2Model ----
(***************************************************************************)
(* A model of src/src/ApiHelper.js: one ApiHelper instance (its fields),   *)
(* the HTTP transport's outstanding requests, the WebSocket sessions that  *)
(* openSocket creates, the timers it schedules and the millisecond clock.  *)
(*                                                                         *)
(* Every public method is one action.  The transports are the environment: *)
(* the HTTP transport completes a request with an error or with a body,    *)
(* the WebSocket transport opens a socket and delivers frames.             *)
(*                                                                         *)
(* JavaScript strings that the code inspects (paths) are sequences of      *)
(* one-character strings.  null and undefined are the markers below.       *)
(* Options that only select a URL or a log line (baseRestUrl, baseWsUrl,   *)
(* verboseOutput, performance, dms, filter) are not part of the state.     *)
(*                                                                         *)
(* Spec is the REST life cycle (setContext, transmit, completion) with     *)
(* calls made at any time, SpecOverlap the same within one millisecond,    *)
(* SpecChain the same with promise chains run one at a time and            *)
(* actOnResponse, SpecOptions the calls noted with the options passed to   *)
(* them, SpecSocket the WebSocket life cycle                               *)
(* (setContext, openSocket, frames, timers), SpecSession a socket opened   *)
(* and REST requests sent on one configured instance, SpecConfig every     *)
(* sequence of setContext calls over a wide alphabet of paths and options, *)
(* SpecCredentials every sequence of setContext and openSocket calls that  *)
(* supply credentials.  All start from Init and use the same actions.      *)
(***************************************************************************)
EXTENDS Integers, Sequences, FiniteSets, TLC

\* ---------------------------------------------------------------- bounds
MaxCalls == 3        \* method calls on the instance in one run
MaxOpens == 1        \* openSocket calls in one run
MaxClock == 2        \* the clock ticks one millisecond at a time up to here

\* ------------------------------------------------------ values and inputs
Null == "null"              \* null or undefined in a credential slot
Absent == "absent"          \* a key the caller's options object does not hold

NullVal == <<"null">>           \* this.error / this.response after the reset
UndefVal == <<"undefined">>     \* a callback argument the transport left out
NoPath == <<"undefined">>       \* this.path before any setContext
NullStr == <<"null">>           \* this.pathArgs = null

\* The delay of the rate-limit retry timer, in milliseconds.
RetryDelayMs == 5000

\* The characters of a path, one string each.
Paths ==
  { <<>>,
    <<"v", "1", "/", "o">>,
    <<"/", "v", "1", "/", "o">>,
    <<"v", "2", "/", "o">>,
    <<"/", "v", "2", "/", "o", "?", "l">>,
    <<"v", "2", "/", "o", "?", "l", "?", "m">>,
    <<"v", "2", "/", "o", "?">>,
    <<"v", "3", "/", "o">>,
    <<"/", "v", "3", "/", "o", "?", "l">>,
    <<"/", "/", "v", "1", "/", "o">>,
    <<"v", "1">>,
    <<"o", "/", "v", "2", "/">>,
    <<"/">> }

CorePaths ==
  { <<>>,
    <<"v", "1", "/", "o">>,
    <<"/", "v", "2", "/", "o", "?", "l">>,
    <<"v", "3", "/", "o">> }

\* setContext's body argument: an object with a payload.
CoreBodyArgs == {"d1"}

\* The optionalHeaders key of an options object that does not hold it, and
\* the header name a caller puts there.
AbsentHeaders == {Absent}

ExtraHeader == "x-extra"

\* An options object that holds no optionalHeaders key.
Opt(k, s, t, v) ==
  [key |-> k, secret |-> s, token |-> t, version |-> v,
   optionalHeaders |-> AbsentHeaders]

\* An options object that holds only optionalHeaders: the header names h.
OptHeaders(h) ==
  [Opt(Absent, Absent, Absent, -1) EXCEPT !.optionalHeaders = h]

\* A caller's options object: each key a value, or Absent (-1 for version).
CallOptions ==
  { Opt(Absent, Absent, Absent, -1),
    Opt("K1", "S1", Absent, -1),
    Opt("K1", Absent, Absent, -1),
    Opt(Absent, Absent, "T1", -1),
    Opt(Absent, Absent, Null, -1),
    Opt(Absent, Absent, Absent, 0),
    Opt(Absent, Absent, Absent, 1),
    Opt(Absent, Absent, Absent, 2) }

CoreOptions ==
  { Opt("K1", "S1", Absent, -1),
    Opt(Absent, Absent, "T1", -1),
    Opt(Absent, Absent, Absent, 1) }

\* The nonce argument of a transmit or of openSocket: 0 is null (falsy).
NonceArgs == {0, 7}

\* The delayResponse argument of openSocket.
Delays == {0, 2}

\* A frame the WebSocket transport delivers, after JSON.parse.
Frame(e, st, m) == [event |-> e, status |-> st, msg |-> m]

NoFrame == Frame("none", "-", "-")

Frames ==
  { Frame("info", "-", "-"),
    Frame("auth", "OK", "-"),
    Frame("auth", "FAILED", "rate: limit"),
    Frame("auth", "FAILED", "apikey: invalid"),
    Frame("auth", "ERROR", "rate: limit") }

\* The credentials file read by the constructor: absent, or a key and secret.
FileCredentials == { <<Null, Null>>, <<"K0", "S0">> }

\* ------------------------------------------------------------- the state
VARIABLES
  key, secret, token,   \* this.key, this.secret, this.token
  options,              \* this.options
  version,              \* this.version (0: undefined)
  path, pathArgs,       \* this.path, this.pathArgs
  body,                 \* this.body
  nonce,                \* this.nonce (0: undefined)
  error, response,      \* this.error, this.response
  wsField,              \* this.ws (0: undefined, else the socket's number)
  clock,                \* Date.now()
  calls,                \* method calls made so far
  lastCall,             \* the latest method call: its name and the options
                        \* object passed to it
  lastConfig,           \* the latest setContext call: arguments, outcome
                        \* and how many transmits came before it (after)
  reqs,                 \* one record per transmit call: payload and promise
  socks,                \* one record per openSocket call: socket and promise
  acts                  \* one record per actOnResponse call: what the
                        \* handler was called with

vars == <<key, secret, token, options, version, path, pathArgs, body, nonce,
          error, response, wsField, clock, calls, lastCall, lastConfig,
          reqs, socks, acts>>

\* ---------------------------------------------------- JavaScript helpers
Truthy(v) == v # Null /\ v # Absent

Populated(v) == v # NullVal /\ v # UndefVal

\* String.prototype.startsWith
StartsWith(s, p) == Len(s) >= Len(p) /\ SubSeq(s, 1, Len(p)) = p

\* String.prototype.includes for one character
Includes(s, c) == \E i \in 1..Len(s) : s[i] = c

\* String.prototype.split on one character: every piece, in order
RECURSIVE Split(_, _)
Split(s, c) ==
  IF ~Includes(s, c) THEN <<s>>
  ELSE LET i == CHOOSE k \in 1..Len(s) :
                  s[k] = c /\ \A j \in 1..(k - 1) : s[j] # c
       IN <<SubSeq(s, 1, i - 1)>> \o Split(SubSeq(s, i + 1, Len(s)), c)

\* { ...DefaultOptions, ...o }: options scoped to the call.
mergeOptionsScoped(base, o) ==
  [key     |-> IF o.key = Absent THEN Null ELSE o.key,
   secret  |-> IF o.secret = Absent THEN Null ELSE o.secret,
   token   |-> IF o.token = Absent THEN Null ELSE o.token,
   version |-> IF o.version = -1 THEN 0 ELSE o.version,
   optionalHeaders |-> IF o.optionalHeaders = AbsentHeaders
                       THEN {} ELSE o.optionalHeaders]

\* { ...base, ...o }: the keys o holds win, the others keep base's value
mergeOptions(base, o) ==
  [key     |-> IF o.key = Absent THEN base.key ELSE o.key,
   secret  |-> IF o.secret = Absent THEN base.secret ELSE o.secret,
   token   |-> IF o.token = Absent THEN base.token ELSE o.token,
   version |-> IF o.version = -1 THEN base.version ELSE o.version,
   optionalHeaders |-> IF o.optionalHeaders = AbsentHeaders
                       THEN base.optionalHeaders ELSE o.optionalHeaders]

\* The hard-coded defaults of the constructor.
DefaultOptions == [Opt(Null, Null, Null, 0) EXCEPT !.optionalHeaders = {}]

\* ------------------------------------------------------- private setters
\* A setCredentials in which the latest call wins: a call without a token
\* clears the stored one.
setCredentialsLastWins(k, s, t) ==
  IF Truthy(t) THEN <<key, secret, t>>
  ELSE IF Truthy(k) /\ Truthy(s) THEN <<k, s, Null>>
  ELSE <<key, secret, Null>>

\* setCredentials(key, secret, token): the <<key, secret, token>> stored after
setCredentials(k, s, t) ==
  IF Truthy(t) THEN <<key, secret, t>>
  ELSE IF Truthy(k) /\ Truthy(s) THEN <<k, s, token>>
  ELSE <<key, secret, token>>

\* setNonce(nonce): the override when truthy, else Date.now() * 1000
setNonce(n) == IF n # 0 THEN n ELSE clock * 1000

\* this.nonce as an earlier operation left it.
NonceLeftOver(n) == nonce

\* this.nonce as the payload builders read it: a transmit and openSocket
\* call setNonce(n) before they build anything.
NonceRead(n) == setNonce(n)

\* A prefix test that forgets the slash after the version segment.
PrefixVersionNoSlash(p) ==
  IF StartsWith(p, <<"v", "1">>) THEN 1
  ELSE IF StartsWith(p, <<"v", "2">>) THEN 2
  ELSE 0

\* The version prefix test of setPath: 1, 2, or 0 when neither matches.
PrefixVersion(p) ==
  IF StartsWith(p, <<"v", "1", "/">>) THEN 1
  ELSE IF StartsWith(p, <<"v", "2", "/">>) THEN 2
  ELSE 0

\* Whether options.version forces the version ([1, 2].includes).
VersionForced(v) == v \in {1, 2}

StripSlash(p) == IF StartsWith(p, <<"/">>) THEN SubSeq(p, 2, Len(p)) ELSE p

\* A setPath that keeps the stored path, query and version.
setPathFrozen(p, ov) ==
  [threw |-> FALSE, version |-> version, path |-> path, pathArgs |-> pathArgs]

\* setPath(path) under options.version = ov: whether it throws, and the
\* version, path and pathArgs it leaves.
setPath(p, ov) ==
  LET q == StripSlash(p)
      pv == PrefixVersion(q)
  IN IF ~VersionForced(ov) /\ pv = 0
     THEN [threw |-> TRUE, version |-> version, path |-> path,
           pathArgs |-> pathArgs]
     ELSE [threw |-> FALSE,
           version |-> IF VersionForced(ov) THEN version ELSE pv,
           path |-> IF Includes(q, "?") THEN Split(q, "?")[1] ELSE q,
           pathArgs |-> IF Includes(q, "?") THEN Split(q, "?")[2]
                        ELSE NullStr]

\* ------------------------------------------------------------------ Init
Init ==
  /\ \E c \in FileCredentials : key = c[1] /\ secret = c[2]
  /\ token = Null
  /\ options = DefaultOptions
  /\ version = 0
  /\ path = NoPath
  /\ pathArgs = NullStr
  /\ body = [data |-> "undefined", request |-> NoPath, nonce |-> 0]
  /\ nonce = 0
  /\ error = NullVal
  /\ response = NullVal
  /\ wsField = 0
  /\ clock = 1
  /\ calls = 0
  /\ lastCall = [op |-> "none", o |-> Opt(Absent, Absent, Absent, -1)]
  /\ lastConfig = [path |-> <<>>, forced |-> 0, result |-> "none",
                   after |-> 0]
  /\ reqs = <<>>
  /\ socks = <<>>
  /\ acts = <<>>

\* ------------------------------------------------------------ setContext
\* setContext(path, body, options); omitted = TRUE is the call without an
\* options argument, whose default is this.options itself.
setContext(p, b, o, omitted) ==
  /\ LET merged == IF omitted THEN options ELSE mergeOptions(options, o)
         sp == setPath(p, merged.version)
         cr == setCredentials(merged.key, merged.secret, merged.token)
         rec(res) == [path |-> p, forced |-> merged.version, result |-> res,
                      after |-> Len(reqs)]
     IN IF p = <<>>
        THEN /\ lastConfig' = rec("rejected_path")
             /\ UNCHANGED <<key, secret, token, options, version, path,
                            pathArgs, body>>
        ELSE IF sp.threw
        THEN /\ lastConfig' = rec("rejected_version")
             /\ options' = merged
             /\ UNCHANGED <<key, secret, token, version, path, pathArgs,
                            body>>
        ELSE /\ lastConfig' = rec("resolved")
             /\ options' = merged
             /\ version' = sp.version
             /\ path' = sp.path
             /\ pathArgs' = sp.pathArgs
             /\ body' = [data |-> b, request |-> NoPath, nonce |-> 0]
             /\ key' = cr[1]
             /\ secret' = cr[2]
             /\ token' = cr[3]
  /\ UNCHANGED <<nonce, error, response, wsField, clock, reqs, socks, acts>>

\* ------------------------------------------------------ REST transmission
\* Neither a token nor both key and secret are stored.
NoCredential == ~Truthy(token) /\ ~(Truthy(key) /\ Truthy(secret))

\* A sendRequest without the downgrade.
AsRequested(authReq) == authReq

\* The downgrade at the top of sendRequest: an authenticated request stays
\* authenticated only with a token, or with both key and secret.
EffectiveAuth(authReq) ==
  authReq /\ (Truthy(token) \/ (Truthy(key) /\ Truthy(secret)))

\* pathArgs is truthy: neither null nor the empty string
HasArgs == pathArgs # NullStr /\ pathArgs # <<>>

\* body.request of getRequestPayloadV1: "/" + path, then "?" + pathArgs
RequestField ==
  (IF StartsWith(path, <<"/">>) THEN path ELSE <<"/">> \o path)
    \o (IF HasArgs THEN <<"?">> \o pathArgs ELSE <<>>)

\* The names of the headers getgetHeaderV1 generates.
getHeaderV1 ==
  IF Truthy(token) THEN {"bfx-token"}
  ELSE {"X-BFX-APIKEY", "X-BFX-PAYLOAD", "X-BFX-SIGNATURE"}

\* The names of the headers getgetHeaderV2 generates.
getHeaderV2 ==
  IF Truthy(token) THEN {"bfx-token"}
  ELSE {"bfx-nonce", "bfx-apikey", "bfx-signature"}

\* mergeOptionalHeaders(headers): the names of { ...optionalHeaders,
\* ...headers }.
mergeOptionalHeaders(h) == options.optionalHeaders \cup h

\* Which payload builder sendRequest picks: this.version === 1, else V2.
PayloadShape == IF version = 1 THEN 1 ELSE 2

\* A transmit that leaves a result slot as it finds it.
keepSlot(v) == v

\* this.error = null; this.response = null: a result slot after the reset
\* that precedes the hand-over to the transport.
resetSlot(v) == NullVal

\* payload.json: set by the v2 builder always, by the v1 builder only for an
\* authenticated request under a token.  The transport decodes the reply of
\* a json request itself and hands over the text of any other.
JsonFlag(eff) == PayloadShape = 2 \/ (eff /\ Truthy(token))

\* sendGetRequest / sendPostRequest (authenticatedRequest, nonce): setNonce,
\* then sendRequest up to the hand-over to the transport.  The record of the
\* call notes options.version as it stood (forced) beside the builder chosen,
\* and whether the call asked for no authentication or found no credential
\* (plain).  For a request signed with key and secret, signed is the nonce
\* under the signature (inside X-BFX-PAYLOAD for v1, inside the string
\* getSignatureV2 signs for v2) and wire the nonce transmitted (body.nonce of
\* the body sent for v1, the bfx-nonce header for v2); both are 0 otherwise.
\* headers are the names the header builder generated, allHeaders those of
\* the object handed to the transport, the optional headers merged in.
\* over is the set of earlier requests still with the transport.  A context that was
\* never configured has no path: the payload builder throws inside the
\* promise executor and the promise is rejected with that TypeError.
sendRequest(isPost, authReq, n) ==
  /\ nonce' = setNonce(n)
  /\ LET eff == EffectiveAuth(authReq)
         rec(st, val) ==
           [st |-> st, eff |-> eff, plain |-> ~authReq \/ NoCredential,
            nonce |-> setNonce(n), auto |-> (n = 0),
            shape |-> PayloadShape, forced |-> options.version,
            headers |-> IF ~eff THEN {}
                        ELSE IF PayloadShape = 1 THEN getHeaderV1 ELSE getHeaderV2,
            allHeaders |-> mergeOptionalHeaders(
                             IF ~eff THEN {}
                             ELSE IF PayloadShape = 1 THEN getHeaderV1
                             ELSE getHeaderV2),
            json |-> JsonFlag(eff),
            signed |-> IF eff /\ ~Truthy(token) THEN NonceRead(n) ELSE 0,
            wire |-> IF eff /\ ~Truthy(token) THEN NonceRead(n) ELSE 0,
            over |-> { k \in 1..Len(reqs) : reqs[k].st = "inflight" },
            cb |-> "none", val |-> val, seen |-> NullVal, got |-> NullVal]
     IN IF path = NoPath
        THEN /\ reqs' = Append(reqs, rec("rejected", "TypeError"))
             /\ UNCHANGED <<body, error, response>>
        ELSE /\ reqs' = Append(reqs, rec("inflight", "none"))
             /\ body' = IF PayloadShape = 1
                        THEN [body EXCEPT
                                !.request = RequestField,
                                !.nonce = IF eff THEN NonceRead(n) ELSE @]
                        ELSE body
             /\ error' = resetSlot(error)
             /\ response' = resetSlot(response)
  /\ UNCHANGED <<key, secret, token, options, version, path, pathArgs,
                 wsField, clock, lastConfig, socks, acts>>

\* Whether the completion callback JSON-decodes the body itself.
ParsesBody == version = 1 /\ ~Truthy(token)

\* The body the transport hands to the callback of request i: none with an
\* error, else the reply (a JSON object), decoded when the request asked for
\* json and as text otherwise.
DeliveredBody(i, failed) ==
  IF failed THEN UndefVal
  ELSE IF reqs[i].json THEN <<"obj", i>> ELSE <<"text", i>>

\* JSON.parse(body): the object a text encodes; it throws on undefined and
\* on an object (which it first turns into the text "[object Object]").
JsonParse(b) ==
  IF b[1] = "text" THEN [threw |-> FALSE, value |-> <<"obj", b[2]>>]
  ELSE [threw |-> TRUE, value |-> b]

\* A callback that keeps an error already in the slot.
EarlierErrorKept(i, failed) ==
  IF Populated(error) THEN error
  ELSE IF failed THEN <<"err", i>> ELSE NullVal

\* this.error = error: the callback's own error argument, or null.
CallbackError(i, failed) == IF failed THEN <<"err", i>> ELSE NullVal

\* The completion callback of request i.  The transport passes an error and
\* no body, or no error and the reply.  When JSON.parse throws, the
\* assignment to this.response and the call of callback() are skipped, and
\* the promise stays pending.  Otherwise callback() rejects when this.error
\* is set and resolves when it is not; seen and got note the two slots as
\* they stand at that moment.
requestCallback(i, failed) ==
  /\ i \in 1..Len(reqs)
  /\ reqs[i].st = "inflight"
  /\ error' = CallbackError(i, failed)
  /\ LET b == DeliveredBody(i, failed)
     IN IF ParsesBody /\ JsonParse(b).threw
        THEN /\ response' = response
             /\ reqs' = [reqs EXCEPT
                           ![i].st = "threw",
                           ![i].cb = IF failed THEN "error" ELSE "ok"]
        ELSE /\ response' = IF ParsesBody THEN JsonParse(b).value ELSE b
             /\ reqs' = [reqs EXCEPT
                           ![i].st = IF Populated(error') THEN "rejected"
                                     ELSE "resolved",
                           ![i].cb = IF failed THEN "error" ELSE "ok",
                           ![i].val = "this",
                           ![i].seen = error',
                           ![i].got = response']
  /\ UNCHANGED <<key, secret, token, options, version, path, pathArgs, body,
                 nonce, wsField, clock, lastConfig, socks, acts>>

\* --------------------------------------------------------- actOnResponse
\* A string concatenated by +: undefined + undefined is NaN, and null and
\* undefined read "null" and "undefined" beside a string.  Only whether the
\* result is truthy is used: NaN and the empty string are not.
ConcatTruthy(a, b) ==
  IF a = NoPath /\ b \in {NoPath, NullStr} THEN FALSE
  ELSE ~(a = <<>> /\ b = <<>>)

\* getFullPath(): this.path + this.pathArgs ? this.pathArgs : "", in which +
\* binds tighter than ?: the concatenation is only the condition.
getFullPath == IF ConcatTruthy(path, pathArgs) THEN pathArgs ELSE <<>>

\* actOnResponse(actionFunction): the handler is called once, inside the
\* promise executor, with this.response and the request's body and path.
\* The record holds the handler's arguments (response, requestBody,
\* requestPath) beside the fields as they stood at the call (stored, body,
\* path, pathArgs).
actOnResponse ==
  /\ acts' = Append(acts,
                [times |-> 1, response |-> response, requestBody |-> body,
                 requestPath |-> getFullPath,
                 path |-> path, pathArgs |-> pathArgs,
                 stored |-> response, body |-> body])
  /\ UNCHANGED <<key, secret, token, options, version, path, pathArgs, body,
                 nonce, error, response, wsField, clock, lastConfig, reqs,
                 socks>>

\* ----------------------------------------------------------- openSocket
\* The credential test left out.
noCredentialTest(k, s) == TRUE

\* The credential test at the head of openSocket's promise executor.
hasSocketCredentials(k, s) == Truthy(k) /\ Truthy(s)

\* getWebSocketSignature under merged options o and nonce n: the token
\* frame when options.token is set, else the signed frame, whose authNonce
\* and authPayload ("AUTH" + nonce) carry this.nonce.
getWebSocketSignature(o, n) ==
  IF Truthy(o.token)
  THEN [kind |-> "token", token |-> o.token, authNonce |-> 0,
        authPayload |-> 0]
  ELSE [kind |-> "signature", token |-> Null, authNonce |-> n,
        authPayload |-> n]

NoAuth == [kind |-> "none", token |-> Null, authNonce |-> 0, authPayload |-> 0]

\* openSocket(options, delayResponse, nonce).  arg says how the options
\* argument was passed: "omitted" (the default, this.options itself), "null"
\* or "object" (o).  With null the spread leaves this.options as it is and
\* the read of options.key throws before anything else happens.
openSocket(o, arg, d, n) ==
  /\ Len(socks) < MaxOpens
  /\ LET given == IF arg = "omitted" THEN options ELSE o
         merged == IF arg = "object" THEN mergeOptions(options, o)
                   ELSE options
         cr == setCredentials(given.key, given.secret, Null)
         pre == [arg |-> arg, delay |-> d,
                 tokenOnly |-> Truthy(merged.token)
                               /\ ~(Truthy(cr[1]) /\ Truthy(cr[2])),
                 noCreds |-> /\ ~Truthy(token)
                             /\ ~Truthy(merged.token)
                             /\ ~(Truthy(key) /\ Truthy(secret))
                             /\ ~(Truthy(merged.key) /\ Truthy(merged.secret))]
         rec(st, conn, a) ==
           [pre |-> pre, st |-> st, connected |-> conn, handler |-> conn,
            auth |-> a, sent |-> 0, infoSeen |-> FALSE, authSeen |-> 0,
            frame |-> NoFrame, rejected |-> NoFrame, settles |-> 0,
            due |-> 0]
     IN IF arg = "null"
        THEN /\ socks' = Append(socks, rec("threw", FALSE, NoAuth))
             /\ UNCHANGED <<key, secret, token, options, nonce>>
        ELSE /\ options' = merged
             /\ key' = cr[1]
             /\ secret' = cr[2]
             /\ token' = cr[3]
             /\ nonce' = setNonce(n)
             /\ IF ~hasSocketCredentials(cr[1], cr[2])
                THEN socks' = Append(socks,
                       [rec("rejected_credentials", FALSE, NoAuth)
                          EXCEPT !.settles = 1])
                ELSE socks' = Append(socks,
                       rec("connecting", TRUE,
                           getWebSocketSignature(merged, NonceRead(n))))
  /\ UNCHANGED <<version, path, pathArgs, body, error, response, wsField,
                 clock, lastConfig, reqs, acts>>

\* socket.onopen: the transport opened the socket; the auth frame is sent.
socketOnOpen(i) ==
  /\ i \in 1..Len(socks)
  /\ socks[i].st = "connecting"
  /\ socks' = [socks EXCEPT ![i].st = "open", ![i].sent = @ + 1]
  /\ UNCHANGED <<key, secret, token, options, version, path, pathArgs, body,
                 nonce, error, response, wsField, clock, lastConfig,
                 reqs, acts>>

\* The handler left installed.
handlerKept == TRUE

\* Whether socket.onmessage is still installed after an auth frame.
handlerAfterAuth == FALSE

\* A rate-limit test that looks at the status alone.
isFailedStatus(f) == f.status = "FAILED"

\* The rate-limit test of the handler.
isRateLimit(f) == f.status = "FAILED" /\ f.msg = "rate: limit"

\* socket.onmessage(msg) on an open socket whose handler is installed (a
\* frame that arrives with no handler installed reaches no code).  A frame
\* whose event is not "auth" changes nothing; infoSeen notes that one came.
socketOnMessage(i, f) ==
  /\ i \in 1..Len(socks)
  /\ socks[i].connected
  /\ socks[i].st # "connecting"
  /\ socks[i].handler
  /\ IF f.event # "auth"
     THEN socks' = [socks EXCEPT ![i].infoSeen = TRUE]
     ELSE IF f.status = "OK"
     THEN socks' = [socks EXCEPT
                      ![i].handler = handlerAfterAuth,
                      ![i].authSeen = @ + 1,
                      ![i].frame = f,
                      ![i].st = "waiting_ok",
                      ![i].due = clock + socks[i].pre.delay]
     ELSE IF isRateLimit(f)
     THEN socks' = [socks EXCEPT
                      ![i].handler = handlerAfterAuth,
                      ![i].authSeen = @ + 1,
                      ![i].frame = f,
                      ![i].st = "waiting_retry",
                      ![i].due = clock + RetryDelayMs]
     ELSE socks' = [socks EXCEPT
                      ![i].handler = handlerAfterAuth,
                      ![i].authSeen = @ + 1,
                      ![i].frame = f,
                      ![i].st = "rejected_auth",
                      ![i].rejected = f,
                      ![i].settles = @ + 1]
  /\ UNCHANGED <<key, secret, token, options, version, path, pathArgs, body,
                 nonce, error, response, wsField, clock, lastConfig,
                 reqs, acts>>

\* The timer of the OK branch: this.ws = socket; resolve(socket).
resolveTimer(i) ==
  /\ i \in 1..Len(socks)
  /\ socks[i].st = "waiting_ok"
  /\ clock >= socks[i].due
  /\ wsField' = i
  /\ socks' = [socks EXCEPT ![i].st = "resolved", ![i].settles = @ + 1]
  /\ UNCHANGED <<key, secret, token, options, version, path, pathArgs, body,
                 nonce, error, response, clock, lastConfig, reqs, acts>>

\* The timer of the rate-limit branch: openSocket(callback,
\* shouldDelayCallback).  None of the three names is in scope in the arrow
\* function, so evaluating the call throws a ReferenceError out of the timer:
\* no method runs, no socket is created and the promise is left pending.
retryTimer(i) ==
  /\ i \in 1..Len(socks)
  /\ socks[i].st = "waiting_retry"
  /\ clock >= socks[i].due
  /\ socks' = [socks EXCEPT ![i].st = "retry_threw"]
  /\ UNCHANGED <<key, secret, token, options, version, path, pathArgs, body,
                 nonce, error, response, wsField, clock, lastConfig,
                 reqs, acts>>

\* ----------------------------------------------------------------- clock
\* One millisecond passes.
Tick ==
  /\ clock < MaxClock
  /\ clock' = clock + 1
  /\ UNCHANGED <<key, secret, token, options, version, path, pathArgs, body,
                 nonce, error, response, wsField, lastConfig, reqs,
                 socks, acts>>

\* Time passes until a pending timer is due.
TickToTimer(i) ==
  /\ i \in 1..Len(socks)
  /\ socks[i].st \in {"waiting_ok", "waiting_retry"}
  /\ socks[i].due > clock
  /\ clock' = socks[i].due
  /\ UNCHANGED <<key, secret, token, options, version, path, pathArgs, body,
                 nonce, error, response, wsField, lastConfig, reqs,
                 socks, acts>>

\* -------------------------------------------------------- specifications
NoOptions == Opt(Absent, Absent, Absent, -1)

\* A method call, counted against MaxCalls.
Call(A) == calls < MaxCalls /\ calls' = calls + 1 /\ A /\ UNCHANGED lastCall

\* A step of the environment (a transport, a timer, the clock).
Env(A) == A /\ UNCHANGED <<calls, lastCall>>

\* A method call, counted, with its name and its options argument noted.
CallWith(op, o, A) ==
  /\ calls < MaxCalls
  /\ calls' = calls + 1
  /\ lastCall' = [op |-> op, o |-> o]
  /\ A

\* The REST life cycle: configure, transmit, complete.
Next ==
  \/ \E p \in CorePaths, b \in CoreBodyArgs, o \in CoreOptions :
        Call(setContext(p, b, o, FALSE))
  \/ \E p \in CorePaths, b \in CoreBodyArgs :
        Call(setContext(p, b, NoOptions, TRUE))
  \/ \E isPost \in BOOLEAN, authReq \in BOOLEAN, n \in NonceArgs :
        Call(sendRequest(isPost, authReq, n))
  \/ \E i \in 1..Len(reqs), failed \in BOOLEAN :
        Env(requestCallback(i, failed))
  \/ Env(Tick)

Spec == Init /\ [][Next]_vars

\* The same life cycle within one millisecond: calls and completions in any
\* order, the clock standing still.
NextOverlap ==
  \/ \E p \in CorePaths, b \in CoreBodyArgs, o \in CoreOptions :
        Call(setContext(p, b, o, FALSE))
  \/ \E p \in CorePaths, b \in CoreBodyArgs :
        Call(setContext(p, b, NoOptions, TRUE))
  \/ \E isPost \in BOOLEAN, authReq \in BOOLEAN, n \in NonceArgs :
        Call(sendRequest(isPost, authReq, n))
  \/ \E i \in 1..Len(reqs), failed \in BOOLEAN :
        Env(requestCallback(i, failed))

SpecOverlap == Init /\ [][NextOverlap]_vars

\* The path of the setContext calls that precede an openSocket.
SocketPaths == { <<"v", "2", "/", "o">> }

\* The options of the calls of the WebSocket life cycle.
SocketOptions ==
  { Opt("K1", "S1", Absent, -1),
    Opt(Absent, Absent, "T1", -1) }

\* The options objects passed to openSocket: also {} and a key alone.
OpenOptions ==
  SocketOptions \cup { NoOptions, Opt("K1", Absent, Absent, -1) }

\* The WebSocket life cycle: configure, open, authenticate.  Time passes
\* from one timer to the next.
NextSocket ==
  \/ \E p \in SocketPaths, b \in CoreBodyArgs, o \in SocketOptions :
        Call(setContext(p, b, o, FALSE))
  \/ \E o \in OpenOptions, d \in Delays, n \in NonceArgs :
        Call(openSocket(o, "object", d, n))
  \/ \E arg \in {"omitted", "null"}, d \in Delays, n \in NonceArgs :
        Call(openSocket(NoOptions, arg, d, n))
  \/ \E i \in 1..Len(socks) : Env(socketOnOpen(i))
  \/ \E i \in 1..Len(socks), f \in Frames : Env(socketOnMessage(i, f))
  \/ \E i \in 1..Len(socks) : Env(resolveTimer(i))
  \/ \E i \in 1..Len(socks) : Env(retryTimer(i))
  \/ \E i \in 1..Len(socks) : Env(TickToTimer(i))

SpecSocket == Init /\ [][NextSocket]_vars

\* Every sequence of setContext calls, over the wide alphabet.
NextConfig ==
  \/ \E p \in Paths, b \in CoreBodyArgs, o \in CallOptions :
        Env(setContext(p, b, o, FALSE))
  \/ \E p \in Paths, b \in CoreBodyArgs :
        Env(setContext(p, b, NoOptions, TRUE))

SpecConfig == Init /\ [][NextConfig]_vars

\* The paths of a session: one of each version.
SessionPaths == { <<"v", "1", "/", "o">>, <<"v", "2", "/", "o">> }

\* One session on one instance, in the order of a promise chain: the context
\* is configured, then the socket is opened, then REST requests are sent.
NextSession ==
  \/ /\ Len(socks) = 0 /\ Len(reqs) = 0
     /\ \E p \in SessionPaths, b \in CoreBodyArgs, o \in SocketOptions :
           Call(setContext(p, b, o, FALSE))
  \/ /\ Len(reqs) = 0
     /\ \E o \in OpenOptions, n \in NonceArgs :
           Call(openSocket(o, "object", 0, n))
  \/ \E i \in 1..Len(socks) : Env(socketOnOpen(i))
  \/ \E isPost \in BOOLEAN, authReq \in BOOLEAN, n \in NonceArgs :
        Call(sendRequest(isPost, authReq, n))

SpecSession == Init /\ [][NextSession]_vars

\* No request is with the transport.
NoneInFlight == \A i \in 1..Len(reqs) : reqs[i].st # "inflight"

\* The options of the calls of a chain: also an explicit token: null.
ChainOptions == CoreOptions \cup { Opt(Absent, Absent, Null, -1) }

\* Promise chains run one at a time: a method is called only when the
\* transport has completed every earlier request.
NextChain ==
  \/ /\ NoneInFlight
     /\ \E p \in CorePaths, b \in CoreBodyArgs, o \in ChainOptions :
           Call(setContext(p, b, o, FALSE))
  \/ /\ NoneInFlight
     /\ \E p \in CorePaths, b \in CoreBodyArgs :
           Call(setContext(p, b, NoOptions, TRUE))
  \/ /\ NoneInFlight
     /\ \E isPost \in BOOLEAN, authReq \in BOOLEAN, n \in NonceArgs :
           Call(sendRequest(isPost, authReq, n))
  \/ \E i \in 1..Len(reqs), failed \in BOOLEAN :
        Env(requestCallback(i, failed))
  \/ NoneInFlight /\ Call(actOnResponse)

SpecChain == Init /\ [][NextChain]_vars

\* The options of the calls that supply credentials: a complete pair, a key
\* alone, a secret alone, a token.
CredentialOptions ==
  { Opt("K1", "S1", Absent, -1),
    Opt("K2", Absent, Absent, -1),
    Opt(Absent, "S2", Absent, -1),
    Opt(Absent, Absent, "T1", -1) }

\* Every sequence of setContext and openSocket calls that supply credentials.
NextCredentials ==
  \/ \E p \in SocketPaths, b \in CoreBodyArgs, o \in CredentialOptions :
        Call(setContext(p, b, o, FALSE))
  \/ \E p \in SocketPaths, b \in CoreBodyArgs :
        Call(setContext(p, b, NoOptions, TRUE))
  \/ \E o \in CredentialOptions : Call(openSocket(o, "object", 0, 0))
  \/ Call(openSocket(NoOptions, "omitted", 0, 0))

SpecCredentials == Init /\ [][NextCredentials]_vars

\* The options of the calls that set defaults: a version, optional headers,
\* no optional headers, a key and secret.
OptionArgs ==
  { Opt(Absent, Absent, Absent, 1),
    OptHeaders({ExtraHeader}),
    OptHeaders({}),
    Opt("K1", "S1", Absent, -1) }

\* The paths of those calls: empty, a v2 path, a path of no known version.
OptionPaths == { <<>>, <<"v", "2", "/", "o">>, <<"v", "3", "/", "o">> }

\* Every sequence of setContext, openSocket and transmit calls, each noted
\* with the options object passed to it.
NextOptions ==
  \/ \E p \in OptionPaths, b \in CoreBodyArgs, o \in OptionArgs :
        CallWith("setContext", o, setContext(p, b, o, FALSE))
  \/ \E p \in OptionPaths, b \in CoreBodyArgs :
        CallWith("setContext", NoOptions, setContext(p, b, NoOptions, TRUE))
  \/ \E o \in OptionArgs :
        CallWith("openSocket", o, openSocket(o, "object", 0, 0))
  \/ \E arg \in {"omitted", "null"} :
        CallWith("openSocket", NoOptions, openSocket(NoOptions, arg, 0, 0))
  \/ \E isPost \in BOOLEAN, authReq \in BOOLEAN :
        CallWith("transmit", NoOptions, sendRequest(isPost, authReq, 0))

SpecOptions == Init /\ [][NextOptions]_vars
\* ================================================================ claims

\* ---------------------------------------------------------------- C1
\* Request i went to the transport signed with key and secret: its nonce is
\* on the wire (bfx-nonce, or body.nonce inside X-BFX-PAYLOAD).
NonceOnWire(i) ==
  /\ reqs[i].val # "TypeError"
  /\ reqs[i].eff
  /\ "bfx-token" \notin reqs[i].headers

\* C1: of any two transmissions on the context, the later one's nonce is
\* strictly greater than the earlier one's, also when both start within the
\* same clock millisecond.  Stated for the signed transmissions that leave
\* the nonce to the code (no override), the case the claim singles out.
C1_NonceStrictlyIncreasing ==
  \A i, j \in 1..Len(reqs) :
    (i < j /\ NonceOnWire(i) /\ NonceOnWire(j)
       /\ reqs[i].auto /\ reqs[j].auto)
      => reqs[j].nonce > reqs[i].nonce

\* ---------------------------------------------------------------- C2
\* The path is not empty and, one leading slash stripped, starts with
\* neither "v1/" nor "v2/".
Unversioned(p) ==
  /\ p # <<>>
  /\ LET q == IF p[1] = "/" THEN Tail(p) ELSE p
     IN ~(Len(q) >= 3 /\ q[1] = "v" /\ q[2] \in {"1", "2"} /\ q[3] = "/")

\* C2 as claimed: every setContext with such a path is rejected with the
\* unresolved-version error, whatever options are supplied.
C2_UnversionedAlwaysRejected ==
  (lastConfig.result # "none" /\ Unversioned(lastConfig.path))
    => lastConfig.result = "rejected_version"

\* C2 as amended: such a path is rejected with the unresolved-version error
\* exactly when the merged options do not force the version; with
\* options.version 1 or 2 the call resolves with the context configured.
C2_UnversionedRejectedUnlessForced ==
  (lastConfig.result # "none" /\ Unversioned(lastConfig.path))
    => IF lastConfig.forced \in {1, 2}
       THEN lastConfig.result = "resolved"
       ELSE lastConfig.result = "rejected_version"

\* A path with a leading slash and no known version was rejected while no
\* version was forced.
C2_Witness ==
  /\ lastConfig.path = <<"/", "v", "3", "/", "o", "?", "l">>
  /\ lastConfig.forced = 0
  /\ lastConfig.result = "rejected_version"

\* ---------------------------------------------------------------- C3
\* C3: whenever the transport invokes the completion callback of a request
\* with an error, the transmit promise is rejected with the context itself
\* and context.error holds that transport error.
C3_TransportErrorRejects ==
  \A i \in 1..Len(reqs) :
    reqs[i].cb = "error"
      => /\ reqs[i].st = "rejected"
         /\ reqs[i].val = "this"
         /\ reqs[i].seen = <<"err", i>>

\* ---------------------------------------------------------------- C4
\* C4: the result slots are mutually exclusive: no reachable state has both
\* context.response and context.error populated.
C4_ResultSlotsExclusive == ~(Populated(error) /\ Populated(response))
\* ---------------------------------------------------------------- C5
\* C5: openSocket on a context whose only credential is a token is not
\* refused: it connects and its auth frame is the token frame (and with an
\* OK reply it resolves with the socket after the delay).
C5_TokenOnlySessionOpens ==
  \A i \in 1..Len(socks) :
    (socks[i].pre.tokenOnly /\ socks[i].pre.arg # "null")
      => /\ socks[i].st # "rejected_credentials"
         /\ socks[i].connected
         /\ socks[i].auth.kind = "token"

\* ---------------------------------------------------------------- C6
\* The auth frame of socket i was the rate-limit frame and its retry timer
\* has fired.
RetryFired(i) ==
  /\ socks[i].frame = Frame("auth", "FAILED", "rate: limit")
  /\ socks[i].st # "waiting_retry"

\* C6: when the retry timer fires, openSocket is re-invoked with the original
\* arguments: a new connection with a new auth frame exists.
C6_RetryReopensSocket ==
  \A i \in 1..Len(socks) :
    RetryFired(i)
      => \E j \in 1..Len(socks) :
           j # i /\ socks[j].connected /\ socks[j].pre = socks[i].pre

C8_DefaultedOptionsDoNotThrow ==
  \A i \in 1..Len(socks) :
    socks[i].pre.arg \in {"omitted", "null"} => socks[i].st # "threw"

\* ---------------------------------------------------------------- C9
\* The auth frame is neither OK nor the rate-limit combination.
OtherFailure(f) ==
  /\ f.event = "auth"
  /\ f.status # "OK"
  /\ ~(f.status = "FAILED" /\ f.msg = "rate: limit")

\* C9: when the auth frame a socket received is such a frame, the promise is
\* rejected with the authentication-failed error carrying that frame, no
\* timer (retry or resolve) is scheduled and the socket never becomes this.ws.
C9_OtherFailureRejects ==
  \A i \in 1..Len(socks) :
    OtherFailure(socks[i].frame)
      => /\ socks[i].st = "rejected_auth"
         /\ socks[i].rejected = socks[i].frame
         /\ socks[i].due = 0
         /\ socks[i].settles = 1
         /\ wsField # i

\* A frame whose msg is the rate-limit text but whose status is not FAILED
\* was rejected.
C9_Witness ==
  \E i \in 1..Len(socks) :
    /\ socks[i].frame = Frame("auth", "ERROR", "rate: limit")
    /\ socks[i].st = "rejected_auth"

\* --------------------------------------------------------------- C10
\* C10: per socket, frames that are not auth frames leave the session
\* pending with the handler installed; the first auth frame clears the
\* handler, so at most one auth frame is processed and resolve / reject is
\* invoked at most once.
C10_OneAuthFramePerSocket ==
  \A i \in 1..Len(socks) :
    /\ socks[i].authSeen <= 1
    /\ socks[i].settles <= 1
    /\ (socks[i].connected /\ socks[i].authSeen = 0)
         => /\ socks[i].handler
            /\ socks[i].st \in {"connecting", "open"}
            /\ socks[i].settles = 0
    /\ socks[i].authSeen = 1 => ~socks[i].handler

\* A socket saw a non-auth frame, then its auth frame, and was resolved.
C10_Witness ==
  \E i \in 1..Len(socks) :
    /\ socks[i].infoSeen
    /\ socks[i].authSeen = 1
    /\ socks[i].st = "resolved"
    /\ socks[i].settles = 1

\* --------------------------------------------------------------- C11
\* C11: a transmission made while options.version is 1 or 2 (the version
\* forced at setContext) is shaped by that version's payload builder and
\* carries that version's headers, whatever the path prefix and whatever an
\* earlier setContext inferred.
C11_ForcedVersionShapesPayload ==
  \A i \in 1..Len(reqs) :
    (reqs[i].val # "TypeError" /\ VersionForced(reqs[i].forced))
      => reqs[i].shape = reqs[i].forced

\* --------------------------------------------------------------- C12
\* Request i went to the transport authenticated.
SentAuthenticated(i) == reqs[i].val # "TypeError" /\ reqs[i].eff

\* The credential an authenticated request carries, by its headers.
RestCredential(i) ==
  IF "bfx-token" \in reqs[i].headers THEN "token" ELSE "signature"

\* C12: every authenticated REST request and every auth frame carries one
\* credential only (the token alone, or key, nonce and signature alone), and
\* a REST request sent after the handshake of the same session carries the
\* kind of credential the handshake's auth frame carried.
C12_OneCredentialAgreed ==
  /\ \A i \in 1..Len(reqs) :
        SentAuthenticated(i)
          => \/ reqs[i].headers = {"bfx-token"}
             \/ /\ "bfx-token" \notin reqs[i].headers
                /\ reqs[i].headers # {}
  /\ \A j \in 1..Len(socks) :
        /\ socks[j].auth.kind = "token"
              => socks[j].auth.authNonce = 0 /\ socks[j].auth.authPayload = 0
        /\ socks[j].auth.kind = "signature" => socks[j].auth.token = Null
  /\ \A i \in 1..Len(reqs) :
        (SentAuthenticated(i) /\ Len(socks) > 0
           /\ socks[Len(socks)].connected)
          => RestCredential(i) = socks[Len(socks)].auth.kind

\* --------------------------------------------------------------- C13
\* The header names the two protocols generate for a credential.
CredentialHeaders ==
  {"X-BFX-APIKEY", "X-BFX-PAYLOAD", "X-BFX-SIGNATURE",
   "bfx-nonce", "bfx-apikey", "bfx-signature", "bfx-token"}

\* The reply to request i, as text or decoded.
ReplyOf(i) == { <<"text", i>>, <<"obj", i>> }

\* C13: a transmission on a configured context that goes out
\* unauthenticated (authentication not requested, or requested with neither
\* a token nor both key and secret stored) carries no credential header, is
\* handed to the transport, and when the transport completes it without an
\* error the promise resolves with the reply stored as response.
C13_UnauthenticatedProceeds ==
  \A i \in 1..Len(reqs) :
    (reqs[i].val # "TypeError" /\ reqs[i].plain)
      => /\ reqs[i].headers \cap CredentialHeaders = {}
         /\ reqs[i].cb = "none" => reqs[i].st = "inflight"
         /\ reqs[i].cb = "ok"
               => /\ reqs[i].st = "resolved"
                  /\ reqs[i].got \in ReplyOf(i)
                  /\ reqs[i].seen = NullVal

\* A v1 request sent while no credential was stored went out
\* unauthenticated and resolved with its reply, decoded.
C13_Witness ==
  \E i \in 1..Len(reqs) :
    /\ reqs[i].plain
    /\ reqs[i].shape = 1
    /\ key = Null /\ token = Null
    /\ reqs[i].st = "resolved"
    /\ response = <<"obj", i>>

\* --------------------------------------------------------------- C14
\* The path argument of the latest setContext, one leading slash stripped.
ConfiguredInput ==
  IF lastConfig.path # <<>> /\ lastConfig.path[1] = "/"
  THEN Tail(lastConfig.path) ELSE lastConfig.path

\* C14: after a setContext that resolved, if its path holds a "?" then
\* path + "?" + pathArgs is the slash-stripped input and path holds no "?"
\* (the split is at the first "?", the query keeps any later one); if it
\* holds none, pathArgs is null.
C14_SplitAtFirstQuestionMark ==
  lastConfig.result = "resolved"
    => IF \E k \in 1..Len(ConfiguredInput) : ConfiguredInput[k] = "?"
       THEN /\ pathArgs # NullStr
            /\ path \o <<"?">> \o pathArgs = ConfiguredInput
            /\ \A k \in 1..Len(path) : path[k] # "?"
       ELSE pathArgs = NullStr /\ path = ConfiguredInput

\* --------------------------------------------------------------- C15
\* A request of the instance has been handed to the transport.
Transmitted == \E i \in 1..Len(reqs) : reqs[i].val # "TypeError"

\* C15 as claimed: once a transmission has started on the instance, no step
\* replaces the configured path, version or body payload.
C15_NoReconfiguration ==
  [][Transmitted
       => /\ path' = path
          /\ version' = version
          /\ body'.data = body.data]_vars

\* The text of ConfiguredInput before its first "?".
ConfiguredPath ==
  LET q == ConfiguredInput
      cut == { k \in 1..Len(q) : q[k] = "?" }
  IN IF cut = {} THEN q
     ELSE SubSeq(q, 1, (CHOOSE k \in cut : \A j \in cut : k <= j) - 1)

\* C15 as amended: the instance is reusable.  A setContext called after a
\* transmission has started or settled, when it resolves, re-configures the
\* instance: path is the new path, body is the new body (without the fields
\* a v1 transmission injected) and, unless options.version forces it, version
\* is the one the new path's prefix names.
C15_SetContextReconfigures ==
  (/\ lastConfig.after > 0
   /\ lastConfig.after = Len(reqs)
   /\ lastConfig.result = "resolved")
    => /\ path = ConfiguredPath
       /\ body = [data |-> "d1", request |-> NoPath, nonce |-> 0]
       /\ lastConfig.forced \notin {1, 2}
            => version = (IF ConfiguredPath[2] = "1" THEN 1 ELSE 2)

\* After a v1 transmission that resolved, a setContext with a v2 path
\* resolved and replaced path, version and the body the transmission had
\* written into.
C15_Witness ==
  /\ Len(reqs) = 1
  /\ reqs[1].shape = 1
  /\ reqs[1].st = "resolved"
  /\ lastConfig.after = 1
  /\ lastConfig.result = "resolved"
  /\ path = <<"v", "2", "/", "o">>
  /\ version = 2
  /\ body.request = NoPath

\* --------------------------------------------------------------- C16
\* C16: every actOnResponse call on a configured context invokes the
\* handler once, with the stored response, with requestBody the context's
\* body, and with requestPath the normalized path, followed by the query
\* suffix when there is one.
C16_HandlerGetsFullPath ==
  \A k \in 1..Len(acts) :
    acts[k].path # NoPath
      => /\ acts[k].times = 1
         /\ acts[k].response = acts[k].stored
         /\ acts[k].requestBody = acts[k].body
         /\ IF acts[k].pathArgs \in {NullStr, <<>>}
            THEN acts[k].requestPath = acts[k].path
            ELSE acts[k].requestPath \in
                   { acts[k].path \o acts[k].pathArgs,
                     acts[k].path \o <<"?">> \o acts[k].pathArgs }

\* --------------------------------------------------------------- C17
\* The key and secret that were supplied together: by the credentials file
\* or by one options object.
SuppliedPairs ==
  FileCredentials \cup
    { <<o.key, o.secret>> : o \in { c \in CredentialOptions :
                                       Truthy(c.key) /\ Truthy(c.secret) } }

\* C17: in every state the stored key and secret are both set or both
\* unset, and a call that supplies only one of the two never changes the
\* stored pair: the stored pair is always one that was supplied together.
C17_KeyAndSecretStoredTogether ==
  /\ Truthy(key) <=> Truthy(secret)
  /\ <<key, secret>> \in SuppliedPairs

\* --------------------------------------------------------------- C18
\* C18: whenever a transmit signs a request with key and secret, the nonce
\* under the signature and the nonce transmitted are both the nonce that
\* this call stored in this.nonce (for v1 it is also body.nonce of the body
\* sent); whenever openSocket builds a signed auth frame, authNonce and the
\* nonce in authPayload are both the nonce that this call stored.
C18_SignedNonceIsThisCallsNonce ==
  [][/\ Len(reqs') = Len(reqs) + 1
        => LET r == reqs'[Len(reqs')]
           IN (r.val # "TypeError" /\ r.eff /\ "bfx-token" \notin r.headers)
                => /\ r.signed = nonce'
                   /\ r.wire = nonce'
                   /\ r.shape = 1 => body'.nonce = nonce'
     /\ Len(socks') = Len(socks) + 1
        => LET k == socks'[Len(socks')]
           IN k.auth.kind = "signature"
                => /\ k.auth.authNonce = nonce'
                   /\ k.auth.authPayload = nonce']_vars

\* A socket was opened with a signed frame under the nonce 7, and a later v1
\* request was signed under the generated nonce.
C18_Witness ==
  /\ Len(socks) > 0
  /\ socks[1].auth.kind = "signature"
  /\ socks[1].auth.authNonce = 7
  /\ \E i \in 1..Len(reqs) :
       /\ reqs[i].shape = 1
       /\ reqs[i].signed = 1000
       /\ reqs[i].wire = 1000
       /\ body.nonce = 1000

\* --------------------------------------------------------------- C19
\* Request j was started while request i was with the transport.
Overlapped(i, j) == j \in 1..Len(reqs) /\ i \in reqs[j].over

\* The callback of request i was the last writer of the result slots, and
\* it came without an error.
LastCompletedOk(i) ==
  /\ reqs[i].cb = "ok"
  /\ error = NullVal
  /\ response \in ReplyOf(i)

C20_CredentialsSticky ==
  [][/\ Truthy(token) => Truthy(token')
     /\ (Truthy(key) /\ Truthy(secret)) => (Truthy(key') /\ Truthy(secret'))
     /\ (Truthy(token) /\ Len(reqs') = Len(reqs) + 1)
        => LET r == reqs'[Len(reqs')]
           IN (r.val # "TypeError" /\ ~r.plain)
                => r.headers = {"bfx-token"}]_vars

\* A token was stored, a later setContext passed token: null, and the
\* authenticated request sent after it still carried bfx-token.
C20_Witness ==
  /\ token = "T1"
  /\ options.token = Null
  /\ lastConfig.result = "resolved"
  /\ lastConfig.after = 0
  /\ Len(reqs) = 1
  /\ reqs[1].eff
  /\ reqs[1].headers = {"bfx-token"}

\* --------------------------------------------------------------- C21
\* The options a call leaves when it is passed the object o over the
\* instance options old: each key that o holds takes o's value, every other
\* key keeps its value.
SuppliedOver(old, o) ==
  [key             |-> IF o.key = Absent THEN old.key ELSE o.key,
   secret          |-> IF o.secret = Absent THEN old.secret ELSE o.secret,
   token           |-> IF o.token = Absent THEN old.token ELSE o.token,
   version         |-> IF o.version = -1 THEN old.version ELSE o.version,
   optionalHeaders |-> IF o.optionalHeaders = {Absent}
                       THEN old.optionalHeaders ELSE o.optionalHeaders]

\* C21: the options passed to a setContext or an openSocket are merged into
\* the instance options and stay there: after every call the instance
\* options are the earlier ones with the keys the call supplied overridden
\* and every other key unchanged (a setContext rejected for an empty path
\* and a transmit supply nothing and change nothing), and a transmit hands
\* the transport the optional headers the instance options hold beside the
\* generated ones.
C21_OptionsPersist ==
  [][calls' = calls + 1
       => /\ IF lastCall'.op = "setContext"
                /\ lastConfig'.result = "rejected_path"
             THEN options' = options
             ELSE options' = SuppliedOver(options, lastCall'.o)
          /\ lastCall'.op = "transmit"
             => LET r == reqs'[Len(reqs')]
                IN r.val # "TypeError"
                     => r.allHeaders = r.headers \cup options.optionalHeaders
      ]_vars

\* Optional headers were set by one setContext, a key and secret by the
\* next, and the transmit that followed carried the optional header beside
\* the signature headers.
C21_Witness ==
  /\ lastCall.op = "transmit"
  /\ options.optionalHeaders = {ExtraHeader}
  /\ options.key = "K1"
  /\ Len(reqs) = 1
  /\ reqs[1].allHeaders =
       {ExtraHeader, "bfx-nonce", "bfx-apikey", "bfx-signature"}

\* --------------------------------------------------------------- C22
\* No callback has run since request i was started: the requests that were
\* with the transport then, and those started later, still wait for theirs.
NoCallbackSince(i) ==
  \A j \in reqs[i].over \cup ((i + 1)..Len(reqs)) : reqs[j].cb = "none"

\* A transmit made before any setContext configured the context was
\* rejected at once and never reached the transport.
UnconfiguredNeverSent ==
  /\ path = NoPath => \A i \in 1..Len(reqs) : reqs[i].val = "TypeError"
  /\ \A i \in 1..Len(reqs) :
        reqs[i].val = "TypeError"
          => reqs[i].st = "rejected" /\ reqs[i].cb = "none"

\* C22 as claimed: whenever a request is with the transport and its callback
\* has not run, response and error are both null; and a transmit on a
\* context that was never configured does not reach the transport.
C22_InFlightSlotsNull ==
  /\ \A i \in 1..Len(reqs) :
        reqs[i].st = "inflight"
          => error = NullVal /\ response = NullVal
  /\ UnconfiguredNeverSent

\* C22 as amended: while a request is with the transport and no callback of
\* any request has run since it was started, response and error are both
\* null (the result of an earlier, completed transmission is not
\* observable); the callback of an overlapping transmission fills the slots
\* while the request is still in flight.  A transmit on a context that was
\* never configured does not reach the transport.
C22_InFlightSlotsNullUntilACallback ==
  /\ \A i \in 1..Len(reqs) :
        (reqs[i].st = "inflight" /\ NoCallbackSince(i))
          => error = NullVal /\ response = NullVal
  /\ UnconfiguredNeverSent

\* A transmission resolved with its reply, and a second one, started after
\* that, is with the transport with both slots null.
C22_Witness ==
  /\ Len(reqs) = 2
  /\ reqs[1].st = "resolved"
  /\ reqs[1].got \in ReplyOf(1)
  /\ reqs[2].st = "inflight"
  /\ reqs[2].over = {}
  /\ error = NullVal
  /\ response = NullVal
====
